---- MODULE Spec2Model ----
(***************************************************************************)
(* Document Redaction add-in: the detection engine (PATTERNS, isValidSSN,  *)
(* findPartialSSNs, the counting in redactDocument), the redaction pass    *)
(* against the Word host (redactDocument and its five redact* helpers) and *)
(* the task-pane button that starts it (handleRedactClick).                *)
(*                                                                         *)
(* Text is a sequence of one-character strings.  Regular expressions are   *)
(* small syntax trees evaluated by a backtracking matcher with JavaScript's*)
(* priorities (greedy quantifiers, leftmost alternative first).            *)
(***************************************************************************)
EXTENDS Integers, Sequences, FiniteSets, TLC

(***************************************************************************)
(* Characters                                                              *)
(***************************************************************************)
Chars(s) == [i \in 1..Len(s) |-> SubSeq(s, i, i)]

LowerSeq == Chars("abcdefghijklmnopqrstuvwxyz")
UpperSeq == Chars("ABCDEFGHIJKLMNOPQRSTUVWXYZ")
Range(f) == {f[i] : i \in DOMAIN f}
Lower == Range(LowerSeq)
Upper == Range(UpperSeq)
Letter == Lower \cup Upper
Digit == {"0", "1", "2", "3", "4", "5", "6", "7", "8", "9"}
\* \w and \s of the JavaScript regular expressions
WordChar == Letter \cup Digit \cup {"_"}
Space == {" ", "\t", "\n", "\r"}
\* [-.\s]
Separator == {"-", "."} \cup Space

\* the two cases of a letter (the i flag compares canonical forms)
LowerOf == [c \in Upper |-> LowerSeq[CHOOSE i \in 1..Len(UpperSeq) : UpperSeq[i] = c]]
UpperOf == [c \in Lower |-> UpperSeq[CHOOSE i \in 1..Len(LowerSeq) : LowerSeq[i] = c]]
ToLower(c) == IF c \in Upper THEN LowerOf[c] ELSE c
ToUpper(c) == IF c \in Lower THEN UpperOf[c] ELSE c

(***************************************************************************)
(* Regular expressions                                                     *)
(***************************************************************************)
Cls(S) == [t |-> "cls", s |-> S]
Wb == [t |-> "wb"]
Lit(str) == [t |-> "lit", s |-> Chars(str)]
Cat(rs) == [t |-> "cat", rs |-> rs]
Alt(rs) == [t |-> "alt", rs |-> rs]
\* r{lo,hi}, greedy; hi = -1 is "no upper limit"
Rep(r, lo, hi) == [t |-> "rep", r |-> r, lo |-> lo, hi |-> hi]
Opt(r) == Rep(r, 0, 1)
Plus(r) == Rep(r, 1, -1)
Star(r) == Rep(r, 0, -1)

SameChar(c, d, ic) == c = d \/ (ic /\ ToLower(c) = ToLower(d))
InClass(c, S, ic) == c \in S \/ (ic /\ (ToLower(c) \in S \/ ToUpper(c) \in S))

IsWordAt(text, i) == i >= 1 /\ i <= Len(text) /\ text[i] \in WordChar
\* \b at the gap before position i
IsWordBoundary(text, i) == IsWordAt(text, i - 1) # IsWordAt(text, i)

\* how many characters of class S stand at text[i], text[i+1], ... (at most hi
\* of them when hi >= 0)
RunLength(S, text, i, hi, ic) ==
    LET most == IF hi >= 0 /\ hi < Len(text) - i + 1 THEN hi ELSE Len(text) - i + 1
        stops == {n \in 0..(most - 1) : ~InClass(text[i + n], S, ic)}
    IN  IF stops = {} THEN most ELSE CHOOSE n \in stops : \A m \in stops : n <= m

\* The backtracking matcher.  Ends(re, text, i, ic) is the sequence of the
\* positions at which a match of re that starts at position i can end, in the
\* order in which a backtracking engine tries them (greedy quantifiers take
\* the most first, alternatives go left to right): its head is the end of the
\* match the engine reports.  ic is the i flag.
RECURSIVE Ends(_, _, _, _)
RECURSIVE FlatEnds(_, _, _, _, _)
RECURSIVE CatEnds(_, _, _, _, _)
RECURSIVE AltEnds(_, _, _, _, _)
RECURSIVE RepEnds(_, _, _, _, _, _)
RECURSIVE RepFlat(_, _, _, _, _, _, _, _)

Ends(re, text, i, ic) ==
    CASE re.t = "cls" ->
           IF i <= Len(text) /\ InClass(text[i], re.s, ic) THEN <<i + 1>> ELSE <<>>
      [] re.t = "wb" -> IF IsWordBoundary(text, i) THEN <<i>> ELSE <<>>
      [] re.t = "lit" ->
           IF /\ i + Len(re.s) - 1 <= Len(text)
              /\ \A j \in 1..Len(re.s) : SameChar(text[i + j - 1], re.s[j], ic)
           THEN <<i + Len(re.s)>> ELSE <<>>
      [] re.t = "cat" -> CatEnds(re.rs, 1, text, <<i>>, ic)
      [] re.t = "alt" -> AltEnds(re.rs, 1, text, i, ic)
      [] re.t = "rep" ->
           IF re.r.t = "cls"
           THEN LET n == RunLength(re.r.s, text, i, re.hi, ic)
                    lo == IF re.lo < 0 THEN 0 ELSE re.lo
                IN  IF n < lo THEN <<>> ELSE [k \in 1..(n - lo + 1) |-> i + n - k + 1]
           ELSE RepEnds(re.r, re.lo, re.hi, text, i, ic)

\* the ends of re from each of the positions starts[k], starts[k+1], ...
FlatEnds(re, text, starts, k, ic) ==
    IF k > Len(starts) THEN <<>>
    ELSE Ends(re, text, starts[k], ic) \o FlatEnds(re, text, starts, k + 1, ic)

CatEnds(rs, k, text, starts, ic) ==
    IF k > Len(rs) \/ starts = <<>> THEN starts
    ELSE CatEnds(rs, k + 1, text, FlatEnds(rs[k], text, starts, 1, ic), ic)

AltEnds(rs, k, text, i, ic) ==
    IF k > Len(rs) THEN <<>>
    ELSE Ends(rs[k], text, i, ic) \o AltEnds(rs, k + 1, text, i, ic)

RepEnds(r, lo, hi, text, i, ic) ==
    IF hi = 0 THEN <<i>>
    ELSE RepFlat(r, lo, hi, text, Ends(r, text, i, ic), 1, i, ic)
         \o (IF lo <= 0 THEN <<i>> ELSE <<>>)

\* one more iteration of r ended at once[k]: the ends of the remaining
\* iterations from there (an iteration that matched nothing is not repeated)
RepFlat(r, lo, hi, text, once, k, i, ic) ==
    IF k > Len(once) THEN <<>>
    ELSE (IF once[k] = i THEN <<>> ELSE RepEnds(r, lo - 1, hi - 1, text, once[k], ic))
         \o RepFlat(r, lo, hi, text, once, k + 1, i, ic)

\* RegExp.prototype.exec / String.prototype.match with the g flag: every
\* non-overlapping match left to right, as <<start, end>> (end exclusive).
\* hits are the positions at which a match can start; the scan for the next
\* match resumes at lastIndex = from.
RECURSIVE MatchesFrom(_, _, _, _, _)
MatchesFrom(re, text, hits, from, ic) ==
    LET starts == {s \in hits : s >= from}
    IN  IF starts = {} THEN <<>>
        ELSE LET s == CHOOSE m \in starts : \A n \in starts : m <= n
                 e == Head(Ends(re, text, s, ic))
             IN  <<<<s, e>>>> \o MatchesFrom(re, text, hits, IF e = s THEN e + 1 ELSE e, ic)

MatchAllFrom(re, text, from, ic) ==
    MatchesFrom(re, text, {s \in from..(Len(text) + 1) : Ends(re, text, s, ic) # <<>>},
                from, ic)

\* text.match(pattern) || []  : the matched substrings
MatchAll(re, text, ic) ==
    LET ms == MatchAllFrom(re, text, 1, ic)
    IN  [k \in 1..Len(ms) |-> SubSeq(text, ms[k][1], ms[k][2] - 1)]

(***************************************************************************)
(* PATTERNS                                                                *)
(***************************************************************************)
Sep == Opt(Cls(Separator))
D(n) == Rep(Cls(Digit), n, n)
MaskChar == {"x", "X", "*"}

\* /\b[A-Za-z0-9._%+-]+@[A-Za-z0-9.-]+\.[A-Za-z]{2,}\b/g
PATTERNS_email ==
    Cat(<<Wb, Plus(Cls(Letter \cup Digit \cup {".", "_", "%", "+", "-"})), Cls({"@"}),
          Plus(Cls(Letter \cup Digit \cup {".", "-"})), Cls({"."}),
          Rep(Cls(Letter), 2, -1), Wb>>)

\* /\+?1?[-.\s]?\(?[0-9]{3}\)?[-.\s]?[0-9]{3}[-.\s]?[0-9]{4}\b/g
PATTERNS_phone ==
    Cat(<<Opt(Cls({"+"})), Opt(Cls({"1"})), Sep, Opt(Cls({"("})), D(3), Opt(Cls({")"})),
          Sep, D(3), Sep, D(4), Wb>>)

\* /\b\d{3}[-.\s]?\d{2}[-.\s]?\d{4}\b/g
PATTERNS_ssnFull == Cat(<<Wb, D(3), Sep, D(2), Sep, D(4), Wb>>)

\* /\b[xX*]{3,4}[-.\s]?[xX*]{0,2}[-.\s]?\d{4}\b/g
PATTERNS_ssnMasked ==
    Cat(<<Wb, Rep(Cls(MaskChar), 3, 4), Sep, Rep(Cls(MaskChar), 0, 2), Sep, D(4), Wb>>)

\* /last\s+(?:four|4)\s+digits?(?:\s+\w+){0,10}\s+(?:are|is|:)?\s*(\d{4})\b/gi
contextPattern ==
    Cat(<<Lit("last"), Plus(Cls(Space)), Alt(<<Lit("four"), Lit("4")>>), Plus(Cls(Space)),
          Lit("digit"), Opt(Lit("s")),
          Rep(Cat(<<Plus(Cls(Space)), Plus(Cls(WordChar))>>), 0, 10),
          Plus(Cls(Space)), Opt(Alt(<<Lit("are"), Lit("is"), Lit(":")>>)),
          Star(Cls(Space)), D(4), Wb>>)

\* /(?:ending|ends)\s+in\s+(\d{4})\b/gi
endingPattern ==
    Cat(<<Alt(<<Lit("ending"), Lit("ends")>>), Plus(Cls(Space)), Lit("in"),
          Plus(Cls(Space)), D(4), Wb>>)

\* /(?:ssn|social\s*security(?:\s*number)?)[:\s]+(?:\d{3}[-.\s]?\d{2}[-.\s]?)?(\d{4})\b/gi
ssnContextPattern ==
    Cat(<<Alt(<<Lit("ssn"),
                Cat(<<Lit("social"), Star(Cls(Space)), Lit("security"),
                      Opt(Cat(<<Star(Cls(Space)), Lit("number")>>))>>)>>),
          Plus(Cls({":"} \cup Space)),
          Opt(Cat(<<D(3), Sep, D(2), Sep>>)), D(4), Wb>>)

(***************************************************************************)
(* Helpers of the detection engine                                         *)
(***************************************************************************)
\* Dedupe without the Set: every pushed value is kept
DedupeKeepAll(arr) == arr

\* [...new Set(arr)] : the first occurrence of each value, in order
Dedupe(arr) ==
    LET keep == {i \in 1..Len(arr) : \A j \in 1..(i - 1) : arr[j] # arr[i]}
    IN  [k \in 1..Cardinality(keep) |->
            arr[CHOOSE i \in keep : Cardinality({j \in keep : j < i}) = k - 1]]

\* str.replace(/\D/g, '')
DigitsOf(str) == SelectSeq(str, LAMBDA c : c \in Digit)

DigitValue(c) == CHOOSE v \in 0..9 : Chars("0123456789")[v + 1] = c

\* parseInt(digits, 10) of a string of decimal digits
RECURSIVE ParseInt(_)
ParseInt(ds) ==
    IF ds = <<>> THEN 0
    ELSE 10 * ParseInt(SubSeq(ds, 1, Len(ds) - 1)) + DigitValue(ds[Len(ds)])

\* isValidSSN with area > 900 for area >= 900
isValidSSNOffByOne(ssn) ==
    LET digits == DigitsOf(ssn)
    IN  IF Len(digits) # 9 THEN FALSE
        ELSE LET area == ParseInt(SubSeq(digits, 1, 3))
                 group == ParseInt(SubSeq(digits, 4, 5))
                 serial == ParseInt(SubSeq(digits, 6, 9))
             IN  IF area = 0 \/ area = 666 \/ area > 900 THEN FALSE
                 ELSE IF group = 0 THEN FALSE
                 ELSE IF serial = 0 THEN FALSE
                 ELSE TRUE

isValidSSN(ssn) ==
    LET digits == DigitsOf(ssn)
    IN  IF Len(digits) # 9 THEN FALSE
        ELSE LET area == ParseInt(SubSeq(digits, 1, 3))
                 group == ParseInt(SubSeq(digits, 4, 5))
                 serial == ParseInt(SubSeq(digits, 6, 9))
             IN  IF area = 0 \/ area = 666 \/ area >= 900 THEN FALSE
                 ELSE IF group = 0 THEN FALSE
                 ELSE IF serial = 0 THEN FALSE
                 ELSE TRUE

\* the while (exec) loop of one sub-pattern: match[1] of every match.  In all
\* three sub-patterns the capture group (\d{4}) is the last thing matched
\* before the \b, so match[1] is the last four characters of the match.
Captures(pattern, text) ==
    LET ms == MatchAllFrom(pattern, text, 1, TRUE)
    IN  [k \in 1..Len(ms) |-> SubSeq(text, ms[k][2] - 4, ms[k][2] - 1)]

\* the three sub-patterns in the order findPartialSSNs runs them
SubPatterns == <<contextPattern, endingPattern, ssnContextPattern>>

RECURSIVE PushAll(_, _, _)
\* partialSSNs after the loops of the sub-patterns order[k], order[k+1], ...
PushAll(order, k, text) ==
    IF k > Len(order) THEN <<>>
    ELSE Captures(SubPatterns[order[k]], text) \o PushAll(order, k + 1, text)

findPartialSSNs(text) == Dedupe(PushAll(<<1, 2, 3>>, 1, text))

countMatches(text, pattern) == Len(MatchAll(pattern, text, FALSE))

\* the phone filter: digits.length >= 10 && digits.length <= 11
PhoneDigitsOk(match) == Len(DigitsOf(match)) >= 10 /\ Len(DigitsOf(match)) <= 11

(***************************************************************************)
(* The Word host: the document, its change-tracking mode, its header, and  *)
(* the commands a request context queues until context.sync()              *)
(***************************************************************************)
REDACTION_MARKER == Chars("[REDACTED]")

Cmd(op, arg) == [op |-> op, arg |-> arg]

\* body.search(literal, {matchCase, matchWholeWord}): the ranges of the
\* occurrences, left to right, as <<start, end>> (end exclusive)
Occurrences(text, literal, matchCase, matchWholeWord) ==
    LET lit == [t |-> "lit", s |-> literal]
        re == IF matchWholeWord THEN Cat(<<Wb, lit, Wb>>) ELSE lit
    IN  MatchAllFrom(re, text, 1, ~matchCase)

\* item.insertText(REDACTION_MARKER, replace) on each of the ranges
RECURSIVE ReplaceRanges(_, _, _, _)
ReplaceRanges(text, ranges, k, pos) ==
    IF k > Len(ranges) THEN SubSeq(text, pos, Len(text))
    ELSE SubSeq(text, pos, ranges[k][1] - 1) \o REDACTION_MARKER
         \o ReplaceRanges(text, ranges, k + 1, ranges[k][2])

\* what a successful context.sync() of the queued commands leaves behind
DocAfter(queue, text) ==
    LET ins == SelectSeq(queue, LAMBDA c : c.op = "insertText")
    IN  IF ins = <<>> THEN text
        ELSE ReplaceRanges(text, [k \in 1..Len(ins) |-> ins[k].arg], 1, 1)

TrackingAfter(queue, mode) ==
    LET set == SelectSeq(queue, LAMBDA c : c.op = "setTracking")
    IN  IF set = <<>> THEN mode ELSE set[Len(set)].arg

HeaderAfter(queue, n) == n + Len(SelectSeq(queue, LAMBDA c : c.op = "insertHeader"))

(***************************************************************************)
(* Bounds and inputs                                                       *)
(***************************************************************************)
\* clicks on the redact button in one behaviour
MaxClicks == 2
\* invocations of redactDocument the model can hold at once
MaxInFlight == 2

ScenarioA == Chars("Contact: jane.doe@example.com or 555-123-4567")
ScenarioB == Chars("SSN: 123-45-6789")
ScenarioC == Chars("SSN: 000-12-3456")
ScenarioD == Chars("the last four digits of my card are 1234")
ScenarioE == Chars("account ending in 4321 and SSN ending in 4321")
ScenarioF == Chars("xxx-xx-5555")
Plain == Chars("nothing to hide")
Mixed == Chars("a@b.co c@d.io 555-123-4567 123-45-6789 XXX-XX-5555 ends in 4321")

Documents == {ScenarioA, ScenarioB, ScenarioC, ScenarioD, ScenarioE, ScenarioF, Plain, Mixed}

\* digits appended to a nine-digit candidate handed to isValidSSN
MaxExtraDigits == 1
\* context phrases in a text handed to findPartialSSNs
MaxPhrases == 2

AreaSamples == {"000", "001", "123", "665", "666", "667", "899", "900", "999"}
GroupSamples == {"00", "01", "45"}
SerialSamples == {"0000", "0001", "6789"}
SepSamples == {"", "-", " ", "."}

\* candidates for isValidSSN: area, group and serial with one separator style,
\* as they are, without their last character, or with digits appended
SSNInputs ==
    UNION {LET full == Chars(a) \o Chars(sep) \o Chars(g) \o Chars(sep) \o Chars(n)
           IN  {SubSeq(full, 1, Len(full) - 1)}
               \cup {full \o [k \in 1..extra |-> "7"] : extra \in 0..MaxExtraDigits}
           : a \in AreaSamples, g \in GroupSamples, n \in SerialSamples, sep \in SepSamples}

PartialPhrases == {"ending in ", "SSN ends in ", "last 4 digits are ", "SSN: ", "ssn 123-45-"}
PartialValues == {"4321", "1234"}
PartialItems == {Chars(ph) \o Chars(v) : ph \in PartialPhrases, v \in PartialValues}

RECURSIVE Join(_, _)
Join(items, k) ==
    IF k > Len(items) THEN <<>>
    ELSE (IF k > 1 THEN Chars(" and ") ELSE <<>>) \o items[k] \o Join(items, k + 1)

\* texts for findPartialSSNs: up to MaxPhrases context phrases, and the
\* documents of the scenarios
PartialTexts ==
    {Join(items, 1) : items \in UNION {[1..n -> PartialItems] : n \in 1..MaxPhrases}}
    \cup {ScenarioB, ScenarioD, ScenarioE}

\* what a failing host call throws: an Error with a message, or another value
Thrown == {[isError |-> TRUE, message |-> "GeneralException"],
           [isError |-> FALSE, message |-> ""]}

(***************************************************************************)
(* State                                                                   *)
(***************************************************************************)
VARIABLES
    docText,        \* the text of the document body
    trackingMode,   \* document.changeTrackingMode
    headerCount,    \* paragraphs inserted into the primary header
    supported,      \* isSetSupported('WordApi', '1.5')
    btnDisabled,    \* btn.disabled of #redact-btn
    status,         \* what #status-container shows
    clicks,         \* clicks handled so far
    run,            \* the invocations of redactDocument, by slot
    input,          \* argument of the pure function under test
    output          \* its result

vars == <<docText, trackingMode, headerCount, supported, btnDisabled, status, clicks,
          run, input, output>>

host == <<docText, trackingMode, headerCount>>
pure == <<input, output>>

Slots == 1..MaxInFlight
NoOutput == <<>>

\* const result: RedactionResult = {...}; error is <<>> while undefined
NewResult ==
    [success |-> FALSE, emailsRedacted |-> 0, phonesRedacted |-> 0, ssnsRedacted |-> 0,
     totalRedacted |-> 0, trackingEnabled |-> FALSE, headerAdded |-> FALSE, error |-> <<>>]

\* a slot with no invocation in it
Idle ==
    [pc |-> "idle", result |-> NewResult, trackChangesSupported |-> FALSE,
     originalText |-> <<>>, partialSSNs |-> <<>>, cat |-> "none", lits |-> <<>>,
     idx |-> 0, queue |-> <<>>, thrown |-> <<>>, escaped |-> FALSE, trace |-> <<>>]

(***************************************************************************)
(* redactDocument: the synchronous stretches between two awaits            *)
(***************************************************************************)
Categories == {"email", "phone", "ssnFull", "ssnMasked", "ssnPartial"}

\* the redact* calls with phones and full SSNs in each other's place
NextCategorySwapped(cat) ==
    CASE cat = "email" -> "ssnFull"
      [] cat = "ssnFull" -> "phone"
      [] cat = "phone" -> "ssnMasked"
      [] cat = "ssnMasked" -> "ssnPartial"
      [] cat = "ssnPartial" -> "header"

\* the order of the redact* calls in redactDocument
NextCategory(cat) ==
    CASE cat = "email" -> "phone"
      [] cat = "phone" -> "ssnFull"
      [] cat = "ssnFull" -> "ssnMasked"
      [] cat = "ssnMasked" -> "ssnPartial"
      [] cat = "ssnPartial" -> "header"

\* the literals a redact* helper searches for, from body.text as it is now
UniqueLiterals(cat, text) ==
    CASE cat = "email" -> Dedupe(MatchAll(PATTERNS_email, text, FALSE))
      [] cat = "phone" -> Dedupe(SelectSeq(MatchAll(PATTERNS_phone, text, FALSE), PhoneDigitsOk))
      [] cat = "ssnFull" -> Dedupe(SelectSeq(MatchAll(PATTERNS_ssnFull, text, FALSE), isValidSSN))
      [] cat = "ssnMasked" -> Dedupe(MatchAll(PATTERNS_ssnMasked, text, FALSE))

\* the options each helper passes to body.search
SearchOptions(cat) ==
    [matchCase |-> cat \in {"phone", "ssnFull", "ssnPartial"},
     matchWholeWord |-> cat = "ssnPartial"]

Event(op, cat) == [op |-> op, cat |-> cat]

\* body.search(match, ...); searchResults.load('items'); await context.sync()
StartLiteral(r, lits, k) ==
    [r EXCEPT !.lits = lits,
              !.idx = k,
              !.queue = <<Cmd("search", [literal |-> lits[k], options |-> SearchOptions(r.cat)])>>,
              !.trace = @ \o <<Event("search", r.cat)>>,
              !.pc = "syncSearch"]

\* header.insertParagraph(...); result.headerAdded = true; await context.sync()
InsertHeader(r) ==
    [r EXCEPT !.cat = "header", !.lits = <<>>, !.idx = 0,
              !.queue = <<Cmd("insertHeader", "CONFIDENTIAL DOCUMENT")>>,
              !.result.headerAdded = TRUE,
              !.pc = "syncHeader"]

\* the call of the helper of category cat, up to its first await
StartCategory(r, cat) ==
    IF cat = "header" THEN InsertHeader(r)
    ELSE IF cat = "ssnPartial"
    THEN IF r.partialSSNs = <<>> THEN InsertHeader(r)
         ELSE StartLiteral([r EXCEPT !.cat = cat], r.partialSSNs, 1)
    ELSE [r EXCEPT !.cat = cat, !.lits = <<>>, !.idx = 0,
                   !.queue = <<Cmd("load", "text")>>, !.pc = "syncLoadText"]

\* the counting of redactDocument on originalText
CountEmails(text) == countMatches(text, PATTERNS_email)

CountPhones(text) == Len(SelectSeq(MatchAll(PATTERNS_phone, text, FALSE), PhoneDigitsOk))

CountSSNs(text, partialSSNs) ==
    LET ssnFullMatches == MatchAll(PATTERNS_ssnFull, text, FALSE)
        validFullSSNs == Len(SelectSeq(ssnFullMatches, isValidSSN))
        maskedSSNs == MatchAll(PATTERNS_ssnMasked, text, FALSE)
    IN  validFullSSNs + Len(maskedSSNs) + Len(partialSSNs)

\* Succeed with a total that leaves the SSN count out
SucceedTotalWithoutSSNs(r) ==
    [r EXCEPT !.result.totalRedacted = r.result.emailsRedacted + r.result.phonesRedacted,
              !.result.success = TRUE,
              !.queue = <<>>, !.pc = "returned"]

\* result.totalRedacted = ...; result.success = true; Word.run resolves
Succeed(r) ==
    [r EXCEPT !.result.totalRedacted =
                  r.result.emailsRedacted + r.result.phonesRedacted + r.result.ssnsRedacted,
              !.result.success = TRUE,
              !.queue = <<>>, !.pc = "returned"]

\* error.message without the instanceof test: undefined for a non-Error
ErrorMessageRaw(e) == IF e.isError THEN <<e.message>> ELSE <<>>

\* error instanceof Error ? error.message : 'An unknown error occurred'
ErrorMessage(e) == IF e.isError THEN <<e.message>> ELSE <<"An unknown error occurred">>

\* what the commands committed by a sync add to the history of the pass
Committed(r) ==
    LET done == SelectSeq(r.queue, LAMBDA c : c.op \in {"setTracking", "insertText", "insertHeader"})
    IN  [k \in 1..Len(done) |->
            Event(IF done[k].op = "setTracking" THEN done[k].arg ELSE done[k].op, r.cat)]

\* a successful context.sync(): the host applies the queued commands
SyncOk(p) ==
    /\ docText' = DocAfter(run[p].queue, docText)
    /\ trackingMode' = TrackingAfter(run[p].queue, trackingMode)
    /\ headerCount' = HeaderAfter(run[p].queue, headerCount)

Synced(r) == [r EXCEPT !.queue = <<>>, !.trace = @ \o Committed(r)]

\* a host call that fails: nothing of the batch is applied, the awaiting
\* code gets the rejection
Faults(p) ==
    /\ \E e \in Thrown : run' = [run EXCEPT ![p] = [run[p] EXCEPT !.pc = "rejected", !.thrown = <<e>>]]
    /\ UNCHANGED <<host, supported, btnDisabled, status, clicks, pure>>

(***************************************************************************)
(* Actions                                                                 *)
(***************************************************************************)
\* a handler that leaves the button enabled while the pass runs
DisabledNever == FALSE

\* btn.disabled = true while the pass runs
DisabledWhileProcessing == TRUE

\* handleRedactClick up to await redactDocument(), and redactDocument up to
\* await Word.run(...).  A disabled button dispatches no click event.
Click(p) ==
    /\ ~btnDisabled
    /\ clicks < MaxClicks
    /\ run[p].pc = "idle"
    /\ \A q \in Slots : q < p => run[q].pc # "idle"
    /\ btnDisabled' = DisabledWhileProcessing
    /\ status' = "none"
    /\ clicks' = clicks + 1
    /\ run' = [run EXCEPT ![p] = [Idle EXCEPT !.pc = "wordRun"]]
    /\ UNCHANGED <<host, supported, pure>>

\* Word.run calls the batch function: isTrackChangesSupported(), then either
\* the tracking toggle or the load of the body text, up to the await
RunBatch(p) ==
    /\ run[p].pc = "wordRun"
    /\ \/ /\ run' = [run EXCEPT ![p] =
                        IF supported
                        THEN [run[p] EXCEPT !.trackChangesSupported = TRUE,
                                       !.queue = <<Cmd("setTracking", "off")>>,
                                       !.pc = "syncTrackOff"]
                        ELSE [run[p] EXCEPT !.trackChangesSupported = FALSE,
                                       !.queue = <<Cmd("load", "text")>>,
                                       !.pc = "syncLoadBody"]]
          /\ UNCHANGED <<host, supported, btnDisabled, status, clicks, pure>>
       \/ Faults(p)

\* await context.sync() after changeTrackingMode = off; then body.load('text')
SyncTrackOff(p) ==
    /\ run[p].pc = "syncTrackOff"
    /\ \/ /\ SyncOk(p)
          /\ run' = [run EXCEPT ![p] =
                        [Synced(run[p]) EXCEPT !.queue = <<Cmd("load", "text")>>,
                                          !.pc = "syncLoadBody"]]
          /\ UNCHANGED <<supported, btnDisabled, status, clicks, pure>>
       \/ Faults(p)

\* await context.sync() of the body load; the counting; the call of redactEmails
SyncLoadBody(p) ==
    /\ run[p].pc = "syncLoadBody"
    /\ \/ /\ SyncOk(p)
          /\ \E partialSSNs \in {findPartialSSNs(docText)} :
                run' = [run EXCEPT ![p] =
                           [StartCategory(Synced(run[p]), "email") EXCEPT
                               !.originalText = docText,
                               !.partialSSNs = partialSSNs,
                               !.result.emailsRedacted = CountEmails(docText),
                               !.result.phonesRedacted = CountPhones(docText),
                               !.result.ssnsRedacted = CountSSNs(docText, partialSSNs)]]
          /\ UNCHANGED <<supported, btnDisabled, status, clicks, pure>>
       \/ Faults(p)

\* await context.sync() of a helper's body load; its matches; its first search,
\* or with no match the next helper
SyncLoadText(p) ==
    /\ run[p].pc = "syncLoadText"
    /\ \/ /\ SyncOk(p)
          /\ \E matches \in {UniqueLiterals(run[p].cat, docText)} :
                run' = [run EXCEPT ![p] =
                           IF matches = <<>>
                           THEN StartCategory(Synced(run[p]), NextCategory(run[p].cat))
                           ELSE StartLiteral(Synced(run[p]), matches, 1)]
          /\ UNCHANGED <<supported, btnDisabled, status, clicks, pure>>
       \/ Faults(p)

\* await context.sync() of a search; item.insertText on every item found
SyncSearch(p) ==
    /\ run[p].pc = "syncSearch"
    /\ \/ /\ SyncOk(p)
          /\ \E items \in {Occurrences(docText, run[p].queue[1].arg.literal,
                                          run[p].queue[1].arg.options.matchCase,
                                          run[p].queue[1].arg.options.matchWholeWord)} :
                run' = [run EXCEPT ![p] =
                           [Synced(run[p]) EXCEPT
                               !.queue = [k \in 1..Len(items) |-> Cmd("insertText", items[k])],
                               !.pc = "syncReplace"]]
          /\ UNCHANGED <<supported, btnDisabled, status, clicks, pure>>
       \/ Faults(p)

\* the loop of a helper without its second await context.sync(): the next
\* search is issued while the replacements of this literal are uncommitted
SyncReplaceUnawaited(p) ==
    /\ run[p].pc = "syncReplace"
    /\ \/ /\ run' = [run EXCEPT ![p] =
                        IF run[p].idx < Len(run[p].lits)
                        THEN StartLiteral(run[p], run[p].lits, run[p].idx + 1)
                        ELSE StartCategory(run[p], NextCategory(run[p].cat))]
          /\ UNCHANGED <<host, supported, btnDisabled, status, clicks, pure>>
       \/ Faults(p)

\* await context.sync() of the replacements; the next literal, or the next helper
SyncReplace(p) ==
    /\ run[p].pc = "syncReplace"
    /\ \/ /\ SyncOk(p)
          /\ run' = [run EXCEPT ![p] =
                        IF run[p].idx < Len(run[p].lits)
                        THEN StartLiteral(Synced(run[p]), run[p].lits, run[p].idx + 1)
                        ELSE StartCategory(Synced(run[p]), NextCategory(run[p].cat))]
          /\ UNCHANGED <<supported, btnDisabled, status, clicks, pure>>
       \/ Faults(p)

\* await context.sync() of the header; then the tracking toggle, or the end
SyncHeader(p) ==
    /\ run[p].pc = "syncHeader"
    /\ \/ /\ SyncOk(p)
          /\ run' = [run EXCEPT ![p] =
                        IF run[p].trackChangesSupported
                        THEN [Synced(run[p]) EXCEPT !.queue = <<Cmd("setTracking", "trackAll")>>,
                                               !.result.trackingEnabled = TRUE,
                                               !.pc = "syncTrackOn"]
                        ELSE Succeed(Synced(run[p]))]
          /\ UNCHANGED <<supported, btnDisabled, status, clicks, pure>>
       \/ Faults(p)

\* await context.sync() after changeTrackingMode = trackAll; the end
SyncTrackOn(p) ==
    /\ run[p].pc = "syncTrackOn"
    /\ \/ /\ SyncOk(p)
          /\ run' = [run EXCEPT ![p] = Succeed(Synced(run[p]))]
          /\ UNCHANGED <<supported, btnDisabled, status, clicks, pure>>
       \/ Faults(p)

\* a catch block that puts the text read at the start back into the document
CatchRollback(p) ==
    /\ run[p].pc = "rejected"
    /\ run' = [run EXCEPT ![p] =
                  [run[p] EXCEPT !.result.error = ErrorMessage(run[p].thrown[1]),
                                 !.result.success = FALSE,
                                 !.pc = "returned"]]
    /\ docText' = IF run[p].originalText # <<>> THEN run[p].originalText ELSE docText
    /\ UNCHANGED <<trackingMode, headerCount, supported, btnDisabled, status, clicks, pure>>

\* a catch block that also totals what was tallied before the fault
CatchTotalled(p) ==
    /\ run[p].pc = "rejected"
    /\ run' = [run EXCEPT ![p] =
                  [run[p] EXCEPT !.result.error = ErrorMessage(run[p].thrown[1]),
                                 !.result.success = FALSE,
                                 !.result.totalRedacted =
                                     run[p].result.emailsRedacted + run[p].result.phonesRedacted
                                         + run[p].result.ssnsRedacted,
                                 !.pc = "returned"]]
    /\ UNCHANGED <<host, supported, btnDisabled, status, clicks, pure>>

\* catch (error) { result.error = ...; result.success = false }  return result
Catch(p) ==
    /\ run[p].pc = "rejected"
    /\ run' = [run EXCEPT ![p] =
                  [run[p] EXCEPT !.result.error = ErrorMessage(run[p].thrown[1]),
                            !.result.success = FALSE,
                            !.pc = "returned"]]
    /\ UNCHANGED <<host, supported, btnDisabled, status, clicks, pure>>

\* displayResult / displayError
Display(r) ==
    IF r.escaped THEN "error"
    ELSE IF r.result.success
         THEN IF r.result.totalRedacted > 0 THEN "complete" ELSE "nothing"
         ELSE "failed"

\* handleRedactClick after the await: try / catch / finally
Finish(p) ==
    /\ run[p].pc = "returned"
    /\ status' = Display(run[p])
    /\ btnDisabled' = FALSE
    /\ run' = [run EXCEPT ![p] = Idle]
    /\ UNCHANGED <<host, supported, clicks, pure>>

Init ==
    /\ docText \in Documents
    /\ trackingMode \in {"off", "trackAll"}
    /\ headerCount = 0
    /\ supported \in BOOLEAN
    /\ btnDisabled = FALSE
    /\ status = "none"
    /\ clicks = 0
    /\ run = [p \in Slots |-> Idle]
    /\ input = <<>>
    /\ output = NoOutput

Next ==
    \E p \in Slots :
        \/ Click(p)
        \/ RunBatch(p)
        \/ SyncTrackOff(p)
        \/ SyncLoadBody(p)
        \/ SyncLoadText(p)
        \/ SyncSearch(p)
        \/ SyncReplace(p)
        \/ SyncHeader(p)
        \/ SyncTrackOn(p)
        \/ Catch(p)
        \/ Finish(p)

Spec == Init /\ [][Next]_vars

(***************************************************************************)
(* The pure functions on their own: isValidSSN and findPartialSSNs applied *)
(* to an input drawn from a bounded set                                    *)
(***************************************************************************)
NoPass ==
    /\ docText = Plain
    /\ trackingMode = "off"
    /\ headerCount = 0
    /\ supported = FALSE
    /\ btnDisabled = FALSE
    /\ status = "none"
    /\ clicks = 0
    /\ run = [p \in Slots |-> Idle]

Apply_isValidSSN ==
    /\ output = NoOutput
    /\ output' = <<isValidSSN(input)>>
    /\ UNCHANGED <<host, supported, btnDisabled, status, clicks, run, input>>

InitValid == NoPass /\ input \in SSNInputs /\ output = NoOutput
NextValid == Apply_isValidSSN
SpecValid == InitValid /\ [][NextValid]_vars

Apply_findPartialSSNs ==
    /\ output = NoOutput
    /\ output' = <<findPartialSSNs(input)>>
    /\ UNCHANGED <<host, supported, btnDisabled, status, clicks, run, input>>

InitPartial == NoPass /\ input \in PartialTexts /\ output = NoOutput
NextPartial == Apply_findPartialSSNs
SpecPartial == InitPartial /\ [][NextPartial]_vars

(***************************************************************************)
(* Properties                                                              *)
(***************************************************************************)
Returned(p) == run[p].pc = "returned"
InFlight == {p \in Slots : run[p].pc # "idle"}
Counts(r) == <<r.result.emailsRedacted, r.result.phonesRedacted, r.result.ssnsRedacted>>
HasEvent(t, op) == \E i \in DOMAIN t : t[i].op = op
MarkerCount(text) == Len(Occurrences(text, REDACTION_MARKER, TRUE, FALSE))
Replacements(t) == Len(SelectSeq(t, LAMBDA e : e.op = "insertText"))

\* C1: every result returned with success = true has
\* totalRedacted = emailsRedacted + phonesRedacted + ssnsRedacted.
C1_TotalIsSum ==
    \A p \in Slots :
        (Returned(p) /\ run[p].result.success) =>
            run[p].result.totalRedacted =
                run[p].result.emailsRedacted + run[p].result.phonesRedacted
                + run[p].result.ssnsRedacted

\* a successful pass has returned with all three counts above zero
C1_Witness ==
    \E p \in Slots :
        /\ Returned(p) /\ run[p].result.success
        /\ run[p].result.emailsRedacted > 0
        /\ run[p].result.phonesRedacted > 0
        /\ run[p].result.ssnsRedacted > 0

\* C2: no exception escapes redactDocument: whatever step faults, it returns
\* a result (the promise is not rejected) with success = false and error set,
\* and the fault and the catch block leave the three counts as tallied.
C2_FaultsBecomeResults ==
    /\ [](\A p \in Slots :
            Returned(p) =>
                /\ ~run[p].escaped
                /\ (run[p].thrown # <<>> =>
                        ~run[p].result.success /\ run[p].result.error # <<>>)
                /\ (~run[p].result.success => run[p].result.error # <<>>))
    /\ [][\A p \in Slots :
            (run'[p].pc \in {"rejected", "returned"} /\ ~run'[p].result.success
             /\ run[p].pc # "idle")
                => Counts(run'[p]) = Counts(run[p])]_vars

\* a pass that faulted after the tally has returned its failure
C2_Witness ==
    \E p \in Slots :
        /\ Returned(p) /\ ~run[p].result.success
        /\ run[p].result.error # <<>>
        /\ run[p].result.emailsRedacted > 0

\* what C3 says isValidSSN returns, on the digits as characters
ClaimedValid(str) ==
    LET ds == DigitsOf(str)
    IN  /\ Len(ds) = 9
        /\ SubSeq(ds, 1, 3) \notin {Chars("000"), Chars("666")}
        /\ ds[1] # "9"
        /\ SubSeq(ds, 4, 5) # Chars("00")
        /\ SubSeq(ds, 6, 9) # Chars("0000")

\* C3: isValidSSN is true exactly for the strings whose digit-only form has
\* nine digits with area not 000, not 666 and below 900, group not 00 and
\* serial not 0000; it is false for every other digit count.
C3_isValidSSN == output # NoOutput => output[1] = ClaimedValid(input)

\* isValidSSN has rejected a nine-digit candidate for its area 900
C3_Witness ==
    /\ output = <<FALSE>>
    /\ Len(DigitsOf(input)) = 9
    /\ SubSeq(DigitsOf(input), 1, 3) = Chars("900")

\* C4: on the document "SSN: 123-45-6789" a successful pass reports
\* ssnsRedacted = 1: the one SSN is counted once.
C4_LabelledSSNCountedOnce ==
    \A p \in Slots :
        (Returned(p) /\ run[p].result.success /\ run[p].originalText = ScenarioB)
            => run[p].result.ssnsRedacted = 1

\* C5: on the document "SSN: 000-12-3456" a successful pass reports
\* ssnsRedacted = 0 and nothing of the number is in the plan.
C5_RejectedSSNIsNoMatch ==
    \A p \in Slots :
        (Returned(p) /\ run[p].result.success /\ run[p].originalText = ScenarioC)
            => /\ run[p].result.ssnsRedacted = 0
               /\ run[p].partialSSNs = <<>>
               /\ ~HasEvent(run[p].trace, "search")

\* the place of a category in the order C6 states
Rank(cat) ==
    CASE cat = "email" -> 1
      [] cat = "phone" -> 2
      [] cat = "ssnFull" -> 3
      [] cat = "ssnMasked" -> 4
      [] cat = "ssnPartial" -> 5

\* C6: searches and committed replacements follow the order emails, phones,
\* full SSNs, masked SSNs, partial SSNs, and when a search is issued no
\* replacement is still waiting to be committed.
C6_CategoryOrder ==
    \A p \in Slots :
        LET t == run[p].trace
            redacting == {i \in DOMAIN t : t[i].op \in {"search", "insertText"}}
        IN  /\ \A i, j \in redacting : i < j => Rank(t[i].cat) <= Rank(t[j].cat)
            /\ run[p].pc = "syncSearch" =>
                   \A k \in DOMAIN run[p].queue : run[p].queue[k].op = "search"

\* a pass has committed replacements of emails, phones, full and masked SSNs
C6_Witness ==
    \E p \in Slots :
        \A cat \in {"email", "phone", "ssnFull", "ssnMasked"} :
            \E i \in DOMAIN run[p].trace :
                run[p].trace[i].op = "insertText" /\ run[p].trace[i].cat = cat

NoDuplicates(arr) == \A i, j \in DOMAIN arr : arr[i] = arr[j] => i = j
Orders == {o \in [1..3 -> 1..3] : \A i, j \in 1..3 : o[i] = o[j] => i = j}

\* C7: findPartialSSNs returns each captured 4-digit value once, the values
\* are the union of the captures of the three sub-patterns, running the
\* sub-patterns in any other order gives the same set, and Scenario E gives
\* one value.
C7_PartialIsSetUnion ==
    output # NoOutput =>
        LET captured == [k \in 1..3 |-> Captures(SubPatterns[k], input)]
        IN  /\ NoDuplicates(output[1])
            /\ Range(output[1]) = UNION {Range(captured[k]) : k \in 1..3}
            /\ \A o \in Orders :
                   Range(Dedupe(captured[o[1]] \o captured[o[2]] \o captured[o[3]]))
                       = Range(output[1])
            /\ input = ScenarioE => Len(output[1]) = 1

\* findPartialSSNs has run on Scenario E, where "ending in 4321" matches twice
C7_Witness == input = ScenarioE /\ output = <<<<Chars("4321")>>>>

\* C8: once a step of the pass has faulted, nothing changes the document until
\* the failure is handed back: the pass returns success = false and the
\* document still holds the replacements it committed.
C8_NoRollback ==
    /\ [](\A p \in Slots :
            (Returned(p) /\ run[p].thrown # <<>>) =>
                /\ ~run[p].result.success
                /\ MarkerCount(docText) >= Replacements(run[p].trace))
    /\ [][\A p \in Slots :
            (run[p].pc = "rejected" \/ (Returned(p) /\ ~run[p].result.success))
                => docText' = docText]_vars

\* a search or replace step has faulted after replacements were committed,
\* and the failure has been returned
C8_Witness ==
    \E p \in Slots :
        /\ Returned(p) /\ ~run[p].result.success
        /\ run[p].cat \in Categories
        /\ Replacements(run[p].trace) > 0
        /\ MarkerCount(docText) > 0

\* C9: tracking is switched off and committed before the first search, it is
\* switched on after the last replacement and the header, and a pass that
\* switched it off has switched it on again when it returns.
C9_TrackingOffThenOn ==
    \A p \in Slots :
        LET t == run[p].trace
        IN  /\ \A j \in DOMAIN t :
                   (run[p].trackChangesSupported /\ t[j].op = "search")
                       => \E i \in 1..(j - 1) : t[i].op = "off"
            /\ \A j \in DOMAIN t :
                   t[j].op = "trackAll" =>
                       /\ \E i \in 1..(j - 1) : t[i].op = "insertHeader"
                       /\ \A i \in DOMAIN t : t[i].op = "insertText" => i < j
            /\ (Returned(p) /\ HasEvent(t, "off")) =>
                   (HasEvent(t, "trackAll") /\ trackingMode = "trackAll")

\* C10: at most one pass is in flight, the button is disabled exactly while
\* one is, and it is enabled again after every pass.
C10_OnePassInFlight ==
    /\ Cardinality(InFlight) <= 1
    /\ InFlight # {} => btnDisabled
    /\ InFlight = {} => ~btnDisabled

\* two passes have run one after the other, the second returned a failure,
\* and the button is enabled again
C10_Witness ==
    /\ clicks = 2
    /\ InFlight = {}
    /\ status = "failed"
    /\ ~btnDisabled

\* the text of a range is the literal that was searched for
HoldsLiteral(text, range, literal, matchCase) ==
    LET found == SubSeq(text, range[1], range[2] - 1)
    IN  /\ Len(found) = Len(literal)
        /\ \A i \in DOMAIN literal : SameChar(found[i], literal[i], ~matchCase)

\* C11: the replacements waiting for their commit are those of the literal
\* searched last, on the document as that search found it; and a search is
\* issued only after the load of a helper or after the commit of the
\* replacements of the literal before it, all of them applied to the document,
\* with nothing but the new search queued.
C11_LiteralStepCompletes ==
    /\ [](\A p \in Slots :
            run[p].pc = "syncReplace" =>
                /\ run[p].idx \in DOMAIN run[p].lits
                /\ \A k \in DOMAIN run[p].queue :
                       /\ run[p].queue[k].op = "insertText"
                       /\ HoldsLiteral(docText, run[p].queue[k].arg, run[p].lits[run[p].idx],
                                       SearchOptions(run[p].cat).matchCase))
    /\ [][\A p \in Slots :
            (run'[p].pc = "syncSearch" /\ run[p].pc # "syncSearch") =>
                /\ run[p].pc \in {"syncLoadText", "syncReplace"}
                /\ Len(run'[p].queue) = 1
                /\ run'[p].queue[1].op = "search"
                /\ run'[p].queue[1].arg.literal = run'[p].lits[run'[p].idx]
                /\ run[p].pc = "syncReplace" =>
                       /\ docText' = DocAfter(run[p].queue, docText)
                       /\ Replacements(run'[p].trace)
                              = Replacements(run[p].trace) + Len(run[p].queue)
                       /\ run'[p].cat = run[p].cat =>
                              /\ run'[p].lits = run[p].lits
                              /\ run'[p].idx = run[p].idx + 1]_vars

\* the search for the second literal of a category is under way, after
\* replacements of the first one were committed
C11_Witness ==
    \E p \in Slots :
        /\ run[p].pc = "syncSearch"
        /\ run[p].idx = 2
        /\ \E i \in DOMAIN run[p].trace :
               run[p].trace[i].op = "insertText" /\ run[p].trace[i].cat = run[p].cat
        /\ MarkerCount(docText) > 0

\* C12: a result returned with success = false has totalRedacted = 0,
\* whatever the three counts are; totalRedacted of a pass changes only in the
\* step that ends the pass with success = true, after the header or the
\* tracking commit.
C12_TotalOnlyOnSuccess ==
    /\ [](\A p \in Slots :
            (Returned(p) /\ ~run[p].result.success) => run[p].result.totalRedacted = 0)
    /\ [][\A p \in Slots :
            (run[p].pc \notin {"idle", "returned"}
             /\ run'[p].result.totalRedacted # run[p].result.totalRedacted) =>
                /\ run[p].pc \in {"syncHeader", "syncTrackOn"}
                /\ run'[p].pc = "returned"
                /\ run'[p].result.success
                /\ run[p].thrown = <<>>]_vars

\* a pass that had tallied emails, phone numbers and SSNs and had committed
\* replacements has returned a failure with a total of 0
C12_Witness ==
    \E p \in Slots :
        /\ Returned(p) /\ ~run[p].result.success
        /\ run[p].result.emailsRedacted > 0
        /\ run[p].result.phonesRedacted > 0
        /\ run[p].result.ssnsRedacted > 0
        /\ Replacements(run[p].trace) > 0
        /\ run[p].result.totalRedacted = 0

====
